---- MODULE Spec2Model ----
(***************************************************************************)
(* create-namespace (alpha-k8s): one provisioning request that creates a   *)
(* CloudFormation stack, polls it to completion while logging its events,  *)
(* creates the Kubernetes namespace and runs create-k8s-namespace-user     *)
(* twice (admin, deployments), registering a compensation on the shared    *)
(* revert stack after every forward effect.  The remote systems            *)
(* (CloudFormation, the cluster API, the aws-auth config map) are state    *)
(* variables; every await of the command is one step of the request.       *)
(***************************************************************************)
EXTENDS Integers, Sequences, FiniteSets, TLC

VARIABLES
    namespaceName,      \* parameter of the request: a sequence of characters
    pc,                 \* position of the request in execute
    sub,                \* 0: createNamespace.execute, 1: admin user, 2: deployments user
    revertStack,        \* compensations registered with revertStack.add, in order
    error,              \* the forward failure thrown out of execute
    result,             \* "running", "success" or "error"
    localDirs,          \* directories made by makeDir
    stacks,             \* CloudFormation: names of the existing stacks
    stackStatus,        \* CloudFormation: StackStatus of the request's stack
    namespaces,         \* cluster: existing namespaces
    roles,              \* cluster: existing namespaced roles
    roleBindings,       \* cluster: existing namespaced role bindings
    mapRoles,           \* cluster: entries of aws-auth data.mapRoles, in order
    publishedEventIds,  \* the poll loop's publishedEventIds array
    log,                \* events handed to Logger.log by the poll loop, in order
    polls,              \* status queries that returned CREATE_IN_PROGRESS
    exitStatus,         \* status returned by the query that ended the loop
    finalStatus,        \* StackStatus of the stack read after the loop
    outputs,            \* the outputs record built from stack.Outputs
    outputsRead,        \* whether stack.Outputs has been read
    rolesRead,          \* the sub-routine's local roles array (YAML.load result)
    nDescribe,          \* number of describeStacks calls made
    nFetch,             \* number of describeStackEvents calls made
    lastCount,          \* Stacks.length of the latest describeStacks answer
    idx,                \* unwind: compensations of revertStack[1..idx] not yet run
    compsRun,           \* unwind: compensations invoked, in order
    compErrors,         \* unwind: compensations that failed
    pre,                \* the remote state when the request started
    appeared,           \* CloudFormation: ids of the events the stack has so far
    seenAtQuery,        \* events there at the latest CREATE_IN_PROGRESS answer
    seenAtFetch,        \* events there at the latest describeStackEvents call
    compRead,           \* the document read by the latest removal compensation
    otherPc,            \* position of another request's user sub-routine
    otherRoles          \* that sub-routine's local roles array

vars == << namespaceName, pc, sub, revertStack, error, result, localDirs,
           stacks, stackStatus, namespaces, roles, roleBindings, mapRoles,
           publishedEventIds, log, polls, exitStatus, finalStatus, outputs,
           outputsRead, rolesRead, nDescribe, nFetch, lastCount, idx,
           compsRun, compErrors, pre, appeared, seenAtQuery, seenAtFetch,
           compRead, otherPc, otherRoles >>

(***************************************************************************)
(* Bounds of the model.                                                    *)
(***************************************************************************)
MaxPolls == 2       \* status queries answered CREATE_IN_PROGRESS
MaxBatch == 2       \* events in one describeStackEvents answer
MaxDoc == 2         \* entries of mapRoles before the request

(***************************************************************************)
(* Names.  A name built by a template string is the record of its parts.   *)
(***************************************************************************)
clusterName == "eks"

Letters == {"a", "t", "T"}
Digits == {"1"}

\* /^[a-z][a-z0-9\-]*$/i
RestOk(s) == \A i \in 1..Len(s) : s[i] \in Letters \cup Digits \cup {"-"}

\* Variant: the pattern without its end anchor, /^[a-z][a-z0-9\-]*/i.
IsValidName_Unanchored(n) == /\ Len(n) > 0
                             /\ n[1] \in Letters

IsValidName(n) == /\ Len(n) > 0
                  /\ n[1] \in Letters
                  /\ RestOk(Tail(n))

Suffix(s) == IF s = 1 THEN "admin" ELSE "deployments"

Name(n, sfx, kind) == [ns |-> n, sfx |-> sfx, cluster |-> "", kind |-> kind]

StackName(n) == Name(n, "", "namespace")

kubernetesName(n, sfx) == Name(n, sfx, "")

kubernetesGroupName(n, sfx) == Name(n, sfx, "group")

kubernetesRoleName(n, sfx) == Name(n, sfx, "role")

kubernetesRoleBindingName(n, sfx) == Name(n, sfx, "role-binding")

\* const roleArn = `${name}-k8s-role` with name = `${kubernetesName}-${clusterName}`
roleArn(n, sfx) == [ns |-> n, sfx |-> sfx, cluster |-> clusterName, kind |-> "k8s-role"]

MapEntry(n, sfx) == [groups |-> << kubernetesGroupName(n, sfx) >>,
                     rolearn |-> roleArn(n, sfx),
                     username |-> kubernetesName(n, sfx)]

(***************************************************************************)
(* Compensations and errors.                                               *)
(***************************************************************************)
Comp(op, sfx) == [op |-> op, sfx |-> sfx]

Err(step, sfx) == [step |-> step, sfx |-> sfx]

NoError == Err("none", "")

(***************************************************************************)
(* CloudFormation events and the body of the poll loop.                    *)
(***************************************************************************)
\* An event is immutable: its id fixes its timestamp and its ResourceProperties
\* ("object": a JSON object, "absent": undefined, "unparsable": not JSON).
EventPool ==
    { [EventId |-> "e1", Timestamp |-> 2, ResourceProperties |-> "object"],
      [EventId |-> "e2", Timestamp |-> 1, ResourceProperties |-> "absent"],
      [EventId |-> "e3", Timestamp |-> 2, ResourceProperties |-> "unparsable"] }

EventIds == { e.EventId : e \in EventPool }

\* StackEvents || []: a list of events the stack has at the time of the call.
Batches ==
    UNION { [1..k -> { e \in EventPool : e.EventId \in appeared }] :
              k \in 0..MaxBatch }

Includes(s, x) == \E i \in 1..Len(s) : s[i] = x

\* e placed behind every element whose Timestamp is not greater (stable).
RECURSIVE InsertByTimestamp(_, _)
InsertByTimestamp(e, s) ==
    IF s = << >> THEN << e >>
    ELSE IF Head(s).Timestamp <= e.Timestamp
         THEN << Head(s) >> \o InsertByTimestamp(e, Tail(s))
         ELSE << e >> \o s

\* .sort((e1, e2) => e1.Timestamp.getTime() - e2.Timestamp.getTime())
RECURSIVE SortByTimestamp(_)
SortByTimestamp(s) ==
    IF s = << >> THEN << >>
    ELSE InsertByTimestamp(s[Len(s)], SortByTimestamp(SubSeq(s, 1, Len(s) - 1)))

\* .filter(e => !publishedEventIds.includes(e.EventId)): the whole array is
\* filtered against the ids published before this batch.
FilterUnpublished(s, published) ==
    SelectSeq(s, LAMBDA e : ~Includes(published, e.EventId))

\* JSON.parse(e.ResourceProperties || '{}') throws on text that is not JSON.
ParseThrows(e) == e.ResourceProperties = "unparsable"

\* .forEach(e => { publishedEventIds.push(e.EventId); ...; Logger.log(...) })
\* st = [published, log, threw]; an exception leaves forEach at once.
RECURSIVE ForEachPublish(_, _)
ForEachPublish(s, st) ==
    IF s = << >> THEN st
    ELSE LET e == Head(s)
             pushed == Append(st.published, e.EventId)
         IN  IF ParseThrows(e)
             THEN [published |-> pushed, log |-> st.log, threw |-> TRUE]
             ELSE ForEachPublish(Tail(s),
                      [published |-> pushed, log |-> Append(st.log, e),
                       threw |-> FALSE])

SurfaceBatch(batch, published, logged) ==
    ForEachPublish(FilterUnpublished(SortByTimestamp(batch), published),
                   [published |-> published, log |-> logged, threw |-> FALSE])

(***************************************************************************)
(* The stack's outputs.                                                    *)
(***************************************************************************)
StackOutputs ==
    << [OutputKey |-> "AdminKubernetesRole", OutputValue |-> "arn:admin"],
       [OutputKey |-> "DeploymentsKubernetesRole", OutputValue |-> "arn:deploy"],
       [OutputKey |-> "Empty", OutputValue |-> ""] >>

\* for (const { OutputKey, OutputValue } of stack.Outputs || [])
\*   if (OutputKey && OutputValue) outputs[OutputKey] = OutputValue
BuildOutputs(outs) ==
    { << outs[i].OutputKey, outs[i].OutputValue >> :
        i \in { j \in 1..Len(outs) :
                  outs[j].OutputKey # "" /\ outs[j].OutputValue # "" } }

\* outputs.AdminKubernetesRole, outputs.DeploymentsKubernetesRole: the value
\* stored under the key, "" for undefined.
OutputOf(outs, key) ==
    LET hits == { p \in outs : p[1] = key }
    IN  IF hits = {} THEN "" ELSE (CHOOSE p \in hits : TRUE)[2]

\* The roleArn parameter createNamespace.execute passes to sub-routine s.
\* createKubernetesNamespaceUser.execute does not take it from its parameters:
\* it declares a constant of the same name (see roleArn above).
roleArnParameter(outs, s) ==
    OutputOf(outs, IF s = 1 THEN "AdminKubernetesRole"
                            ELSE "DeploymentsKubernetesRole")

\* A string given as it is, written as a name with one part.
Literal(str) == [ns |-> << >>, sfx |-> "", cluster |-> "", kind |-> str]

(***************************************************************************)
(* The initial state: the request's parameters and the remote systems.     *)
(***************************************************************************)
NameInputs == { << "t", "-", "a" >>, << "1", "a" >>, << >>, << "a", "_" >> }

OtherNs == << "o" >>

OtherEntry == MapEntry(OtherNs, "ops")

\* An entry left in the document that carries the rolearn the admin
\* sub-routine of this request derives.
StaleEntry(n) == [groups |-> << kubernetesGroupName(OtherNs, "old") >>,
                  rolearn |-> roleArn(n, "admin"),
                  username |-> kubernetesName(OtherNs, "old")]

InitDocs(n) == UNION { [1..k -> {OtherEntry, StaleEntry(n)}] : k \in 0..MaxDoc }

Remote == [stacks |-> stacks, namespaces |-> namespaces, roles |-> roles,
           roleBindings |-> roleBindings, mapRoles |-> mapRoles]

Init ==
    /\ namespaceName \in NameInputs
    /\ pc = "start"
    /\ sub = 0
    /\ revertStack = << >>
    /\ error = NoError
    /\ result = "running"
    /\ localDirs = {}
    /\ \E stackThere \in BOOLEAN :
         /\ stacks = {StackName(OtherNs)}
                       \cup (IF stackThere THEN {StackName(namespaceName)} ELSE {})
         /\ stackStatus = IF stackThere THEN "CREATE_COMPLETE" ELSE "NONE"
    /\ \E nsThere \in BOOLEAN :
         namespaces = {OtherNs} \cup (IF nsThere THEN {namespaceName} ELSE {})
    /\ roles = {kubernetesRoleName(OtherNs, "ops")}
    /\ roleBindings = {kubernetesRoleBindingName(OtherNs, "ops")}
    /\ mapRoles \in InitDocs(namespaceName)
    /\ publishedEventIds = << >>
    /\ log = << >>
    /\ polls = 0
    /\ exitStatus = "none"
    /\ finalStatus = "none"
    /\ outputs = {}
    /\ outputsRead = FALSE
    /\ rolesRead = << >>
    /\ nDescribe = 0
    /\ nFetch = 0
    /\ lastCount = 1
    /\ idx = 0
    /\ compsRun = << >>
    /\ compErrors = {}
    /\ pre = Remote
    /\ appeared = EventIds
    /\ seenAtQuery = {}
    /\ seenAtFetch = {}
    /\ compRead = << >>
    /\ otherPc = "absent"
    /\ otherRoles = << >>

(***************************************************************************)
(* Failure of a forward step: the exception leaves execute, no later       *)
(* statement of execute runs, and the orchestrator starts to unwind.       *)
(***************************************************************************)
Throw(e) ==
    /\ error' = e
    /\ pc' = "unwinding"
    /\ idx' = Len(revertStack)

frameRemote == << stacks, stackStatus, namespaces, roles, roleBindings, mapRoles >>

framePoll == << publishedEventIds, log, polls, exitStatus, finalStatus,
                outputs, outputsRead, nDescribe, nFetch, lastCount,
                seenAtQuery, seenAtFetch >>

frameUnwind == << compsRun, compErrors, compRead >>

frameRequest == << namespaceName, pre, result >>

frameOther == << appeared, otherPc, otherRoles >>

StackCounts == {0, 1, 2}    \* length of Stacks in a describeStacks answer

(***************************************************************************)
(* createNamespace.execute                                                 *)
(***************************************************************************)
\* if (!namespaceName || !namespaceName.match(...)) throw
ValidateFail ==
    /\ pc = "start"
    /\ ~IsValidName(namespaceName)
    /\ Throw(Err("invalidName", ""))
    /\ UNCHANGED << sub, revertStack, localDirs, rolesRead >>
    /\ UNCHANGED << frameRemote, framePoll, frameUnwind, frameRequest, frameOther >>

\* await makeDir(namespacePath)
MakeDirOk ==
    /\ pc = "start"
    /\ IsValidName(namespaceName)
    /\ localDirs' = localDirs \cup {namespaceName}
    /\ pc' = "createStack"
    /\ UNCHANGED << sub, revertStack, error, idx, rolesRead >>
    /\ UNCHANGED << frameRemote, framePoll, frameUnwind, frameRequest, frameOther >>

MakeDirFail ==
    /\ pc = "start"
    /\ IsValidName(namespaceName)
    /\ Throw(Err("makeDir", ""))
    /\ UNCHANGED << sub, revertStack, localDirs, rolesRead >>
    /\ UNCHANGED << frameRemote, framePoll, frameUnwind, frameRequest, frameOther >>

\* Variant: the stack is created and its deletion is not registered.
CreateStackOk_NoCompensation ==
    /\ pc = "createStack"
    /\ StackName(namespaceName) \notin stacks
    /\ stacks' = stacks \cup {StackName(namespaceName)}
    /\ stackStatus' = "CREATE_IN_PROGRESS"
    /\ pc' = "getStackStatus"
    /\ UNCHANGED << sub, revertStack, error, idx, localDirs, rolesRead >>
    /\ UNCHANGED << namespaces, roles, roleBindings, mapRoles >>
    /\ UNCHANGED << framePoll, frameUnwind, frameRequest, frameOther >>

\* await cf.createStack(...).promise(); revertStack.add(delete stack)
CreateStackOk ==
    /\ pc = "createStack"
    /\ StackName(namespaceName) \notin stacks
    /\ stacks' = stacks \cup {StackName(namespaceName)}
    /\ stackStatus' = "CREATE_IN_PROGRESS"
    /\ revertStack' = Append(revertStack, Comp("deleteStack", ""))
    /\ pc' = "getStackStatus"
    /\ UNCHANGED << sub, error, idx, localDirs, rolesRead >>
    /\ UNCHANGED << namespaces, roles, roleBindings, mapRoles >>
    /\ UNCHANGED << framePoll, frameUnwind, frameRequest, frameOther >>

CreateStackFail ==
    /\ pc = "createStack"
    /\ Throw(Err("createStack", ""))
    /\ UNCHANGED << sub, revertStack, localDirs, rolesRead >>
    /\ UNCHANGED << frameRemote, framePoll, frameUnwind, frameRequest, frameOther >>

\* Variant: Stacks.length < 1 is the only rejected answer.
Resolves_AtLeastOne(n) == n >= 1

\* describeStack: if (!Stacks || Stacks.length !== 1) throw
Resolves(n) == n = 1

\* while ((await getStackStatus()) === 'CREATE_IN_PROGRESS'): the loop goes on
GetStackStatusInProgress ==
    /\ pc = "getStackStatus"
    /\ polls < MaxPolls
    /\ \E n \in StackCounts : Resolves(n) /\ lastCount' = n
    /\ stackStatus = "CREATE_IN_PROGRESS"
    /\ nDescribe' = nDescribe + 1
    /\ polls' = polls + 1
    /\ pc' = "describeStackEvents"
    /\ UNCHANGED << sub, revertStack, error, idx, localDirs, rolesRead >>
    /\ UNCHANGED << publishedEventIds, log, exitStatus, finalStatus, outputs,
                    outputsRead, nFetch >>
    /\ UNCHANGED << frameRemote, frameUnwind, frameRequest, frameOther >>
    /\ seenAtQuery' = appeared
    /\ UNCHANGED seenAtFetch

\* Variant: the events are fetched and surfaced once more when the loop ends.
GetStackStatusExit_FetchesOnceMore ==
    /\ pc = "getStackStatus"
    /\ \E n \in StackCounts : Resolves(n) /\ lastCount' = n
    /\ stackStatus # "CREATE_IN_PROGRESS"
    /\ nDescribe' = nDescribe + 1
    /\ exitStatus' = stackStatus
    /\ pc' = "describeStack"
    /\ \E batch \in Batches :
         LET st == SurfaceBatch(batch, publishedEventIds, log)
         IN  /\ publishedEventIds' = st.published
             /\ log' = st.log
    /\ nFetch' = nFetch + 1
    /\ seenAtFetch' = appeared
    /\ UNCHANGED << sub, revertStack, error, idx, localDirs, rolesRead >>
    /\ UNCHANGED << polls, finalStatus, outputs, outputsRead, seenAtQuery >>
    /\ UNCHANGED << frameRemote, frameUnwind, frameRequest, frameOther >>

\* the status query that ends the loop
GetStackStatusExit ==
    /\ pc = "getStackStatus"
    /\ \E n \in StackCounts : Resolves(n) /\ lastCount' = n
    /\ stackStatus # "CREATE_IN_PROGRESS"
    /\ nDescribe' = nDescribe + 1
    /\ exitStatus' = stackStatus
    /\ pc' = "describeStack"
    /\ UNCHANGED << sub, revertStack, error, idx, localDirs, rolesRead >>
    /\ UNCHANGED << publishedEventIds, log, polls, finalStatus, outputs,
                    outputsRead, nFetch >>
    /\ UNCHANGED << frameRemote, frameUnwind, frameRequest, frameOther >>
    /\ UNCHANGED << seenAtQuery, seenAtFetch >>

\* describeStack throws inside getStackStatus
GetStackStatusFail ==
    /\ pc = "getStackStatus"
    /\ \E n \in StackCounts : ~Resolves(n) /\ lastCount' = n
    /\ nDescribe' = nDescribe + 1
    /\ Throw(Err("notExactlyOneStack", ""))
    /\ UNCHANGED << sub, revertStack, localDirs, rolesRead >>
    /\ UNCHANGED << publishedEventIds, log, polls, exitStatus, finalStatus,
                    outputs, outputsRead, nFetch >>
    /\ UNCHANGED << frameRemote, frameUnwind, frameRequest, frameOther >>
    /\ UNCHANGED << seenAtQuery, seenAtFetch >>

\* the body of the loop: describeStackEvents, sort, filter, forEach, sleep
DescribeStackEvents ==
    /\ pc = "describeStackEvents"
    /\ \E batch \in Batches :
         LET st == SurfaceBatch(batch, publishedEventIds, log)
         IN  /\ publishedEventIds' = st.published
             /\ log' = st.log
             /\ IF st.threw
                THEN Throw(Err("renderEvent", ""))
                ELSE /\ pc' = "getStackStatus"
                     /\ UNCHANGED << error, idx >>
    /\ nFetch' = nFetch + 1
    /\ UNCHANGED << sub, revertStack, localDirs, rolesRead >>
    /\ UNCHANGED << polls, exitStatus, finalStatus, outputs, outputsRead,
                    nDescribe, lastCount >>
    /\ UNCHANGED << frameRemote, frameUnwind, frameRequest, frameOther >>
    /\ seenAtFetch' = appeared
    /\ UNCHANGED seenAtQuery

\* Variant: only CREATE_FAILED is rejected.
Unexpected_OnlyFailed(status) == status = "CREATE_FAILED"

\* stack.StackStatus !== 'CREATE_COMPLETE'
Unexpected(status) == status # "CREATE_COMPLETE"

\* const stack = await describeStack(): the stack cannot be resolved
DescribeStackFail ==
    /\ pc = "describeStack"
    /\ \E n \in StackCounts : ~Resolves(n) /\ lastCount' = n
    /\ nDescribe' = nDescribe + 1
    /\ Throw(Err("notExactlyOneStack", ""))
    /\ UNCHANGED << sub, revertStack, localDirs, rolesRead >>
    /\ UNCHANGED << publishedEventIds, log, polls, exitStatus, finalStatus,
                    outputs, outputsRead, nFetch >>
    /\ UNCHANGED << frameRemote, frameUnwind, frameRequest, frameOther >>
    /\ UNCHANGED << seenAtQuery, seenAtFetch >>

\* const stack = await describeStack(); the status check throws
DescribeStackUnexpected ==
    /\ pc = "describeStack"
    /\ \E n \in StackCounts : Resolves(n) /\ lastCount' = n
    /\ Unexpected(stackStatus)
    /\ nDescribe' = nDescribe + 1
    /\ finalStatus' = stackStatus
    /\ Throw(Err("unexpectedResult", ""))
    /\ UNCHANGED << sub, revertStack, localDirs, rolesRead >>
    /\ UNCHANGED << publishedEventIds, log, polls, exitStatus, outputs,
                    outputsRead, nFetch >>
    /\ UNCHANGED << frameRemote, frameUnwind, frameRequest, frameOther >>
    /\ UNCHANGED << seenAtQuery, seenAtFetch >>

\* Variant: the outputs are taken from one more describeStack.
DescribeStackComplete_DescribesAgain ==
    /\ pc = "describeStack"
    /\ \E n \in StackCounts : Resolves(n) /\ lastCount' = n
    /\ ~Unexpected(stackStatus)
    /\ nDescribe' = nDescribe + 2
    /\ finalStatus' = stackStatus
    /\ outputs' = BuildOutputs(StackOutputs)
    /\ outputsRead' = TRUE
    /\ pc' = "createNamespace"
    /\ UNCHANGED << sub, revertStack, error, idx, localDirs, rolesRead >>
    /\ UNCHANGED << publishedEventIds, log, polls, exitStatus, nFetch >>
    /\ UNCHANGED << frameRemote, frameUnwind, frameRequest, frameOther >>
    /\ UNCHANGED << seenAtQuery, seenAtFetch >>

\* const stack = await describeStack(); the outputs are collected
DescribeStackComplete ==
    /\ pc = "describeStack"
    /\ \E n \in StackCounts : Resolves(n) /\ lastCount' = n
    /\ ~Unexpected(stackStatus)
    /\ nDescribe' = nDescribe + 1
    /\ finalStatus' = stackStatus
    /\ outputs' = BuildOutputs(StackOutputs)
    /\ outputsRead' = TRUE
    /\ pc' = "createNamespace"
    /\ UNCHANGED << sub, revertStack, error, idx, localDirs, rolesRead >>
    /\ UNCHANGED << publishedEventIds, log, polls, exitStatus, nFetch >>
    /\ UNCHANGED << frameRemote, frameUnwind, frameRequest, frameOther >>
    /\ UNCHANGED << seenAtQuery, seenAtFetch >>

\* Variant: the namespace is created and its deletion is not registered.
CreateNamespaceOk_NoCompensation ==
    /\ pc = "createNamespace"
    /\ namespaceName \notin namespaces
    /\ namespaces' = namespaces \cup {namespaceName}
    /\ sub' = 1
    /\ pc' = "createRole"
    /\ UNCHANGED << revertStack, error, idx, localDirs, rolesRead >>
    /\ UNCHANGED << stacks, stackStatus, roles, roleBindings, mapRoles >>
    /\ UNCHANGED << framePoll, frameUnwind, frameRequest, frameOther >>

\* await k8sApi().createNamespace(namespace); revertStack.add(delete namespace);
\* createKubernetesNamespaceUser.exec({... suffix: 'admin' ...}, revertStack)
CreateNamespaceOk ==
    /\ pc = "createNamespace"
    /\ namespaceName \notin namespaces
    /\ namespaces' = namespaces \cup {namespaceName}
    /\ revertStack' = Append(revertStack, Comp("deleteNamespace", ""))
    /\ sub' = 1
    /\ pc' = "createRole"
    /\ UNCHANGED << error, idx, localDirs, rolesRead >>
    /\ UNCHANGED << stacks, stackStatus, roles, roleBindings, mapRoles >>
    /\ UNCHANGED << framePoll, frameUnwind, frameRequest, frameOther >>

\* Variant: the call is not awaited, its rejection does not stop execute.
CreateNamespaceFail_NotAwaited ==
    /\ pc = "createNamespace"
    /\ sub' = 1
    /\ pc' = "createRole"
    /\ UNCHANGED << revertStack, error, idx, localDirs, rolesRead >>
    /\ UNCHANGED << frameRemote, framePoll, frameUnwind, frameRequest, frameOther >>

CreateNamespaceFail ==
    /\ pc = "createNamespace"
    /\ Throw(Err("createNamespace", ""))
    /\ UNCHANGED << sub, revertStack, localDirs, rolesRead >>
    /\ UNCHANGED << frameRemote, framePoll, frameUnwind, frameRequest, frameOther >>

(***************************************************************************)
(* createKubernetesNamespaceUser.execute, run with sub = 1 (admin) and     *)
(* then sub = 2 (deployments) on the same revert stack.                    *)
(***************************************************************************)
\* await k8sRbacApi().createNamespacedRole(...); revertStack.add(delete role)
CreateRoleOk ==
    /\ pc = "createRole"
    /\ kubernetesRoleName(namespaceName, Suffix(sub)) \notin roles
    /\ roles' = roles \cup {kubernetesRoleName(namespaceName, Suffix(sub))}
    /\ revertStack' = Append(revertStack, Comp("deleteRole", Suffix(sub)))
    /\ pc' = "createRoleBinding"
    /\ UNCHANGED << sub, error, idx, localDirs, rolesRead >>
    /\ UNCHANGED << stacks, stackStatus, namespaces, roleBindings, mapRoles >>
    /\ UNCHANGED << framePoll, frameUnwind, frameRequest, frameOther >>

CreateRoleFail ==
    /\ pc = "createRole"
    /\ Throw(Err("createRole", Suffix(sub)))
    /\ UNCHANGED << sub, revertStack, localDirs, rolesRead >>
    /\ UNCHANGED << frameRemote, framePoll, frameUnwind, frameRequest, frameOther >>

\* The body of the role binding: its name, its subject group, its roleRef.
RoleBindingBody(n, sfx) ==
    [name |-> kubernetesRoleBindingName(n, sfx),
     subject |-> kubernetesGroupName(n, sfx),
     roleRef |-> kubernetesRoleName(n, sfx)]

\* await k8sRbacApi().createNamespacedRoleBinding(...);
\* revertStack.add(delete role binding)
CreateRoleBindingOk ==
    /\ pc = "createRoleBinding"
    /\ kubernetesRoleBindingName(namespaceName, Suffix(sub)) \notin roleBindings
    /\ roleBindings' = roleBindings
                         \cup {kubernetesRoleBindingName(namespaceName, Suffix(sub))}
    /\ revertStack' = Append(revertStack, Comp("deleteRoleBinding", Suffix(sub)))
    /\ pc' = "readConfigMap"
    /\ UNCHANGED << sub, error, idx, localDirs, rolesRead >>
    /\ UNCHANGED << stacks, stackStatus, namespaces, roles, mapRoles >>
    /\ UNCHANGED << framePoll, frameUnwind, frameRequest, frameOther >>

\* Variant: the failure of the call is swallowed and the sub-routine goes on.
CreateRoleBindingFail_Swallowed ==
    /\ pc = "createRoleBinding"
    /\ pc' = "readConfigMap"
    /\ UNCHANGED << sub, revertStack, error, idx, localDirs, rolesRead >>
    /\ UNCHANGED << frameRemote, framePoll, frameUnwind, frameRequest, frameOther >>

CreateRoleBindingFail ==
    /\ pc = "createRoleBinding"
    /\ Throw(Err("createRoleBinding", Suffix(sub)))
    /\ UNCHANGED << sub, revertStack, localDirs, rolesRead >>
    /\ UNCHANGED << frameRemote, framePoll, frameUnwind, frameRequest, frameOther >>

\* const roles = YAML.load(authConfigMap.data.mapRoles); roles.push({...})
\* (the document is kept as the list of its entries)
ReadConfigMapOk ==
    /\ pc = "readConfigMap"
    /\ rolesRead' = Append(mapRoles, MapEntry(namespaceName, Suffix(sub)))
    /\ pc' = "replaceConfigMap"
    /\ UNCHANGED << sub, revertStack, error, idx, localDirs >>
    /\ UNCHANGED << frameRemote, framePoll, frameUnwind, frameRequest, frameOther >>

ReadConfigMapFail ==
    /\ pc = "readConfigMap"
    /\ Throw(Err("readConfigMap", Suffix(sub)))
    /\ UNCHANGED << sub, revertStack, localDirs, rolesRead >>
    /\ UNCHANGED << frameRemote, framePoll, frameUnwind, frameRequest, frameOther >>

\* Variant: the document is replaced and the removal is not registered.
ReplaceConfigMapOk_NoCompensation ==
    /\ pc = "replaceConfigMap"
    /\ mapRoles' = rolesRead
    /\ IF sub = 1
       THEN /\ sub' = 2
            /\ pc' = "createRole"
            /\ UNCHANGED result
       ELSE /\ sub' = 0
            /\ pc' = "done"
            /\ result' = "success"
    /\ UNCHANGED << revertStack, error, idx, localDirs, rolesRead >>
    /\ UNCHANGED << stacks, stackStatus, namespaces, roles, roleBindings >>
    /\ UNCHANGED << framePoll, frameUnwind, namespaceName, pre, frameOther >>

\* await k8sApi().replaceNamespacedConfigMap(...); revertStack.add(remove entry);
\* the sub-routine returns: the admin run is followed by the deployments run,
\* the deployments run by the return of createNamespace.execute
ReplaceConfigMapOk ==
    /\ pc = "replaceConfigMap"
    /\ mapRoles' = rolesRead
    /\ revertStack' = Append(revertStack, Comp("removeMapping", Suffix(sub)))
    /\ IF sub = 1
       THEN /\ sub' = 2
            /\ pc' = "createRole"
            /\ UNCHANGED result
       ELSE /\ sub' = 0
            /\ pc' = "done"
            /\ result' = "success"
    /\ UNCHANGED << error, idx, localDirs, rolesRead >>
    /\ UNCHANGED << stacks, stackStatus, namespaces, roles, roleBindings >>
    /\ UNCHANGED << framePoll, frameUnwind, namespaceName, pre, frameOther >>

ReplaceConfigMapFail ==
    /\ pc = "replaceConfigMap"
    /\ Throw(Err("replaceConfigMap", Suffix(sub)))
    /\ UNCHANGED << sub, revertStack, localDirs, rolesRead >>
    /\ UNCHANGED << frameRemote, framePoll, frameUnwind, frameRequest, frameOther >>

(***************************************************************************)
(* The compensations, as the closures given to revertStack.add.            *)
(***************************************************************************)
\* Variant: the compensation writes the document back as it read it.
RemoveMapping_KeepAll(doc, arn) == doc

\* .filter((role: any) => role.rolearn !== roleArn)
RemoveMapping(doc, arn) == SelectSeq(doc, LAMBDA role : role.rolearn # arn)

\* Variant: the compensation filters the array its sub-routine had loaded.
CompensationRead_Captured == rolesRead

\* const authConfigMap = await k8sApi().readNamespacedConfigMap(...) inside
\* the compensation: the document as it is when the compensation runs.
CompensationRead == mapRoles

\* Variant: the role binding is deleted under the name of the role.
CompensationEffect_BindingByRoleName(c) ==
    CASE c.op = "deleteStack" ->
           /\ stacks' = stacks \ {StackName(namespaceName)}
           /\ stackStatus' = "DELETE_COMPLETE"
           /\ UNCHANGED << namespaces, roles, roleBindings, mapRoles >>
      [] c.op = "deleteNamespace" ->
           /\ namespaces' = namespaces \ {namespaceName}
           /\ roles' = { r \in roles : r.ns # namespaceName }
           /\ roleBindings' = { b \in roleBindings : b.ns # namespaceName }
           /\ UNCHANGED << stacks, stackStatus, mapRoles >>
      [] c.op = "deleteRole" ->
           /\ roles' = roles \ {kubernetesRoleName(namespaceName, c.sfx)}
           /\ UNCHANGED << stacks, stackStatus, namespaces, roleBindings, mapRoles >>
      [] c.op = "deleteRoleBinding" ->
           /\ roleBindings' = roleBindings
                                \ {kubernetesRoleName(namespaceName, c.sfx)}
           /\ UNCHANGED << stacks, stackStatus, namespaces, roles, mapRoles >>
      [] c.op = "removeMapping" ->
           /\ mapRoles' = RemoveMapping(CompensationRead,
                                        roleArn(namespaceName, c.sfx))
           /\ UNCHANGED << stacks, stackStatus, namespaces, roles, roleBindings >>

CompensationEffect(c) ==
    CASE c.op = "deleteStack" ->
           /\ stacks' = stacks \ {StackName(namespaceName)}
           /\ stackStatus' = "DELETE_COMPLETE"
           /\ UNCHANGED << namespaces, roles, roleBindings, mapRoles >>
      [] c.op = "deleteNamespace" ->
           /\ namespaces' = namespaces \ {namespaceName}
           /\ roles' = { r \in roles : r.ns # namespaceName }
           /\ roleBindings' = { b \in roleBindings : b.ns # namespaceName }
           /\ UNCHANGED << stacks, stackStatus, mapRoles >>
      [] c.op = "deleteRole" ->
           /\ roles' = roles \ {kubernetesRoleName(namespaceName, c.sfx)}
           /\ UNCHANGED << stacks, stackStatus, namespaces, roleBindings, mapRoles >>
      [] c.op = "deleteRoleBinding" ->
           /\ roleBindings' = roleBindings
                                \ {kubernetesRoleBindingName(namespaceName, c.sfx)}
           /\ UNCHANGED << stacks, stackStatus, namespaces, roles, mapRoles >>
      [] c.op = "removeMapping" ->
           /\ mapRoles' = RemoveMapping(CompensationRead,
                                        roleArn(namespaceName, c.sfx))
           /\ UNCHANGED << stacks, stackStatus, namespaces, roles, roleBindings >>

(***************************************************************************)
(* Unwind: the orchestrator runs the registered compensations from the     *)
(* most recently added to the first, goes on when one fails, and then      *)
(* raises the forward failure again.                                       *)
(***************************************************************************)
NextCompensation == revertStack[idx]

RunCompensationOk ==
    /\ pc = "unwinding"
    /\ idx > 0
    /\ CompensationEffect(NextCompensation)
    /\ compsRun' = Append(compsRun, NextCompensation)
    /\ compRead' = IF NextCompensation.op = "removeMapping"
                    THEN CompensationRead
                    ELSE compRead
    /\ idx' = idx - 1
    /\ UNCHANGED << pc, sub, revertStack, error, localDirs, rolesRead, compErrors >>
    /\ UNCHANGED << framePoll, frameRequest, frameOther >>

\* Variant: a failed compensation ends the unwind.
AfterFailedCompensation_Abort == idx - idx

AfterFailedCompensation == idx - 1

RunCompensationFail ==
    /\ pc = "unwinding"
    /\ idx > 0
    /\ compsRun' = Append(compsRun, NextCompensation)
    /\ compErrors' = compErrors \cup {NextCompensation}
    /\ idx' = AfterFailedCompensation
    /\ UNCHANGED << pc, sub, revertStack, error, localDirs, rolesRead, compRead >>
    /\ UNCHANGED << frameRemote, framePoll, frameRequest, frameOther >>

Rethrow ==
    /\ pc = "unwinding"
    /\ idx = 0
    /\ pc' = "done"
    /\ result' = "error"
    /\ UNCHANGED << sub, revertStack, error, idx, localDirs, rolesRead >>
    /\ UNCHANGED << frameRemote, framePoll, frameUnwind, namespaceName, pre, frameOther >>

(***************************************************************************)
(* CloudFormation: the creation of the stack goes on by itself.            *)
(***************************************************************************)
StackProgress ==
    /\ StackName(namespaceName) \in stacks
    /\ \/ /\ stackStatus = "CREATE_IN_PROGRESS"
          /\ stackStatus' \in {"CREATE_COMPLETE", "CREATE_FAILED",
                               "ROLLBACK_IN_PROGRESS"}
       \/ /\ stackStatus \in {"CREATE_FAILED", "ROLLBACK_IN_PROGRESS"}
          /\ stackStatus' = "ROLLBACK_COMPLETE"
    /\ UNCHANGED << pc, sub, revertStack, error, idx, localDirs, rolesRead >>
    /\ UNCHANGED << stacks, namespaces, roles, roleBindings, mapRoles >>
    /\ UNCHANGED << framePoll, frameUnwind, frameRequest, frameOther >>

Next ==
    \/ ValidateFail \/ MakeDirOk \/ MakeDirFail
    \/ CreateStackOk \/ CreateStackFail
    \/ GetStackStatusInProgress \/ GetStackStatusExit \/ GetStackStatusFail
    \/ DescribeStackEvents
    \/ DescribeStackFail \/ DescribeStackUnexpected \/ DescribeStackComplete
    \/ CreateNamespaceOk \/ CreateNamespaceFail
    \/ CreateRoleOk \/ CreateRoleFail
    \/ CreateRoleBindingOk \/ CreateRoleBindingFail
    \/ ReadConfigMapOk \/ ReadConfigMapFail
    \/ ReplaceConfigMapOk \/ ReplaceConfigMapFail
    \/ RunCompensationOk \/ RunCompensationFail \/ Rethrow
    \/ StackProgress

Spec == Init /\ [][Next]_vars

(***************************************************************************)
(* The request with the events of its stack appearing one by one while     *)
(* the creation goes on.                                                   *)
(***************************************************************************)
EventAppears ==
    /\ StackName(namespaceName) \in stacks
    /\ stackStatus \in {"CREATE_IN_PROGRESS", "CREATE_FAILED",
                        "ROLLBACK_IN_PROGRESS"}
    /\ \E id \in EventIds \ appeared : appeared' = appeared \cup {id}
    /\ UNCHANGED << pc, sub, revertStack, error, idx, localDirs, rolesRead >>
    /\ UNCHANGED << otherPc, otherRoles >>
    /\ UNCHANGED << frameRemote, framePoll, frameUnwind, frameRequest >>

InitEvents ==
    /\ namespaceName \in NameInputs
    /\ pc = "start"
    /\ sub = 0
    /\ revertStack = << >>
    /\ error = NoError
    /\ result = "running"
    /\ localDirs = {}
    /\ stacks = {StackName(OtherNs)}
    /\ stackStatus = "NONE"
    /\ namespaces = {OtherNs}
    /\ roles = {kubernetesRoleName(OtherNs, "ops")}
    /\ roleBindings = {kubernetesRoleBindingName(OtherNs, "ops")}
    /\ mapRoles = << OtherEntry >>
    /\ publishedEventIds = << >>
    /\ log = << >>
    /\ polls = 0
    /\ exitStatus = "none"
    /\ finalStatus = "none"
    /\ outputs = {}
    /\ outputsRead = FALSE
    /\ rolesRead = << >>
    /\ nDescribe = 0
    /\ nFetch = 0
    /\ lastCount = 1
    /\ idx = 0
    /\ compsRun = << >>
    /\ compErrors = {}
    /\ pre = Remote
    /\ appeared = {}
    /\ seenAtQuery = {}
    /\ seenAtFetch = {}
    /\ compRead = << >>
    /\ otherPc = "absent"
    /\ otherRoles = << >>

NextEvents == Next \/ EventAppears

SpecEvents == InitEvents /\ [][NextEvents]_vars

(***************************************************************************)
(* The request with the user sub-routine of another request running at     *)
(* the same time on the same aws-auth config map.                          *)
(***************************************************************************)
RacerEntry == MapEntry(OtherNs, "deployments")

\* const roles = YAML.load(authConfigMap.data.mapRoles); roles.push({...})
OtherRead ==
    /\ otherPc = "readConfigMap"
    /\ otherRoles' = Append(mapRoles, RacerEntry)
    /\ otherPc' = "replaceConfigMap"
    /\ UNCHANGED << pc, sub, revertStack, error, idx, localDirs, rolesRead >>
    /\ UNCHANGED appeared
    /\ UNCHANGED << frameRemote, framePoll, frameUnwind, frameRequest >>

\* Variant: the entry is added to the document as it is at the write.
OtherReplace_Merge ==
    /\ otherPc = "replaceConfigMap"
    /\ mapRoles' = Append(mapRoles, RacerEntry)
    /\ otherPc' = "done"
    /\ UNCHANGED << pc, sub, revertStack, error, idx, localDirs, rolesRead >>
    /\ UNCHANGED << appeared, otherRoles >>
    /\ UNCHANGED << stacks, stackStatus, namespaces, roles, roleBindings >>
    /\ UNCHANGED << framePoll, frameUnwind, frameRequest >>

\* await k8sApi().replaceNamespacedConfigMap(...): the last forward step of
\* the other request, which then returns successfully
OtherReplace ==
    /\ otherPc = "replaceConfigMap"
    /\ mapRoles' = otherRoles
    /\ otherPc' = "done"
    /\ UNCHANGED << pc, sub, revertStack, error, idx, localDirs, rolesRead >>
    /\ UNCHANGED << appeared, otherRoles >>
    /\ UNCHANGED << stacks, stackStatus, namespaces, roles, roleBindings >>
    /\ UNCHANGED << framePoll, frameUnwind, frameRequest >>

InitRace ==
    /\ namespaceName \in NameInputs
    /\ pc = "start"
    /\ sub = 0
    /\ revertStack = << >>
    /\ error = NoError
    /\ result = "running"
    /\ localDirs = {}
    /\ stacks = {StackName(OtherNs)}
    /\ stackStatus = "NONE"
    /\ namespaces = {OtherNs}
    /\ roles = {kubernetesRoleName(OtherNs, "ops")}
    /\ roleBindings = {kubernetesRoleBindingName(OtherNs, "ops")}
    /\ mapRoles \in InitDocs(namespaceName)
    /\ publishedEventIds = << >>
    /\ log = << >>
    /\ polls = 0
    /\ exitStatus = "none"
    /\ finalStatus = "none"
    /\ outputs = {}
    /\ outputsRead = FALSE
    /\ rolesRead = << >>
    /\ nDescribe = 0
    /\ nFetch = 0
    /\ lastCount = 1
    /\ idx = 0
    /\ compsRun = << >>
    /\ compErrors = {}
    /\ pre = Remote
    /\ appeared = {}
    /\ seenAtQuery = {}
    /\ seenAtFetch = {}
    /\ compRead = << >>
    /\ otherPc = "readConfigMap"
    /\ otherRoles = << >>

NextRace == Next \/ OtherRead \/ OtherReplace

SpecRace == InitRace /\ [][NextRace]_vars

(***************************************************************************)
(* Vocabulary of the properties.                                           *)
(***************************************************************************)
Reverse(s) == [i \in 1..Len(s) |-> s[Len(s) + 1 - i]]

\* The compensations of the eight forward actions, in the order of the actions.
ForwardComps ==
    << Comp("deleteStack", ""), Comp("deleteNamespace", ""),
       Comp("deleteRole", "admin"), Comp("deleteRoleBinding", "admin"),
       Comp("removeMapping", "admin"),
       Comp("deleteRole", "deployments"), Comp("deleteRoleBinding", "deployments"),
       Comp("removeMapping", "deployments") >>

\* The forward actions: create stack, create namespace and, per sub-routine,
\* create role, create role binding, replace the mapping document (its read
\* and its write).
ForwardSteps == {"createStack", "createNamespace", "createRole",
                 "createRoleBinding", "readConfigMap", "replaceConfigMap"}

ActionIndex(e) ==
    CASE e.step = "createStack" -> 1
      [] e.step = "createNamespace" -> 2
      [] e.step = "createRole" -> IF e.sfx = "admin" THEN 3 ELSE 6
      [] e.step = "createRoleBinding" -> IF e.sfx = "admin" THEN 4 ELSE 7
      [] e.step \in {"readConfigMap", "replaceConfigMap"} ->
           IF e.sfx = "admin" THEN 5 ELSE 8

Registered(c) == Includes(revertStack, c)

CountArn(doc, arn) == Cardinality({ i \in 1..Len(doc) : doc[i].rolearn = arn })

Entries(doc) == { doc[i] : i \in 1..Len(doc) }

\* The compensations run so far are the last ones registered, latest first.
UnwoundSoFar == SubSeq(revertStack, idx + 1, Len(revertStack))

(***************************************************************************)
(* C1: when the first k-1 forward actions succeed and action k fails,      *)
(* exactly the k-1 compensations registered so far are invoked, in reverse *)
(* of their registration order, and the failure is raised to the caller    *)
(* only after the unwind has completed (k = 1: no compensation runs).      *)
(***************************************************************************)
C1_UnwindReversesRegistered ==
    /\ error.step \in ForwardSteps =>
         /\ revertStack = SubSeq(ForwardComps, 1, ActionIndex(error) - 1)
         /\ compsRun = Reverse(UnwoundSoFar)
         /\ result = "error" => /\ compsRun = Reverse(revertStack)
                                /\ Len(compsRun) = ActionIndex(error) - 1
    /\ result = "error" => compsRun = Reverse(revertStack)
    /\ pc = "unwinding" => result = "running"

C1_Witness ==
    /\ pc = "done"
    /\ result = "error"
    /\ error = Err("replaceConfigMap", "deployments")
    /\ Len(compsRun) = 7

(***************************************************************************)
(* C2: a compensation that fails does not stop the unwind: every           *)
(* registered compensation is attempted exactly once, and the error the    *)
(* caller gets is the forward failure, which no compensation changes.      *)
(***************************************************************************)
C2_EveryCompensationAttempted ==
    /\ (pc = "done" /\ result = "error") =>
         /\ Len(compsRun) = Len(revertStack)
         /\ \A i \in 1..Len(revertStack) :
              Cardinality({ j \in 1..Len(compsRun) : compsRun[j] = revertStack[i] }) = 1
         /\ compsRun = Reverse(revertStack)
         /\ error # NoError
    /\ pc = "unwinding" => compsRun = Reverse(UnwoundSoFar)
    /\ compErrors \subseteq { compsRun[j] : j \in 1..Len(compsRun) }

C2_ErrorKept == [][pc = "unwinding" => error' = error]_vars

C2_BestEffortUnwind == [] C2_EveryCompensationAttempted /\ C2_ErrorKept

C2_Witness ==
    /\ pc = "done"
    /\ result = "error"
    /\ Len(compsRun) = 7
    /\ compsRun[1] \in compErrors
    /\ compsRun[4] \in compErrors
    /\ compsRun[7] \notin compErrors

(***************************************************************************)
(* C3: as long as no compensation has run, the revert stack mirrors the    *)
(* forward effects that have succeeded: a compensation is registered if    *)
(* and only if the resource it undoes has been created by this request,    *)
(* and the compensations are in the order of the forward actions.          *)
(***************************************************************************)
Created(set, before, x) == x \in set /\ x \notin before

C3_StackMirrorsEffects ==
    compsRun = << >> /\ (pc = "unwinding" => idx = Len(revertStack)) =>
      /\ revertStack = SubSeq(ForwardComps, 1, Len(revertStack))
      /\ Registered(Comp("deleteStack", ""))
           <=> Created(stacks, pre.stacks, StackName(namespaceName))
      /\ Registered(Comp("deleteNamespace", ""))
           <=> Created(namespaces, pre.namespaces, namespaceName)
      /\ \A s \in 1..2 :
           /\ Registered(Comp("deleteRole", Suffix(s)))
                <=> Created(roles, pre.roles,
                            kubernetesRoleName(namespaceName, Suffix(s)))
           /\ Registered(Comp("deleteRoleBinding", Suffix(s)))
                <=> Created(roleBindings, pre.roleBindings,
                            kubernetesRoleBindingName(namespaceName, Suffix(s)))
           /\ CountArn(mapRoles, roleArn(namespaceName, Suffix(s)))
                = CountArn(pre.mapRoles, roleArn(namespaceName, Suffix(s)))
                  + (IF Registered(Comp("removeMapping", Suffix(s))) THEN 1 ELSE 0)

\* the event rendering fails after the stack was created: its compensation
\* is on the stack
C3_Witness ==
    /\ pc = "unwinding"
    /\ error = Err("renderEvent", "")
    /\ compsRun = << >>
    /\ revertStack = << Comp("deleteStack", "") >>
    /\ StackName(namespaceName) \in stacks

(***************************************************************************)
(* C4: when the creation of the role binding fails in the deployments      *)
(* sub-routine, the compensations run in this order: delete the            *)
(* deployments role, remove the admin mapping entry, delete the admin role *)
(* binding, delete the admin role, delete the namespace, delete the stack. *)
(***************************************************************************)
C4_Order ==
    << Comp("deleteRole", "deployments"), Comp("removeMapping", "admin"),
       Comp("deleteRoleBinding", "admin"), Comp("deleteRole", "admin"),
       Comp("deleteNamespace", ""), Comp("deleteStack", "") >>

C4_GlobalReverseOrder ==
    error = Err("createRoleBinding", "deployments") =>
      /\ compsRun = SubSeq(C4_Order, 1, Len(compsRun))
      /\ pc = "done" => compsRun = C4_Order

C4_Witness ==
    /\ pc = "done"
    /\ error = Err("createRoleBinding", "deployments")
    /\ compsRun = C4_Order

(***************************************************************************)
(* C5 as stated: whatever the remote systems held before the request,      *)
(* when a forward step fails and every compensation succeeds, the stacks,  *)
(* namespaces, roles, role bindings and mapping entries after the unwind   *)
(* are those that existed before the operation.                            *)
(***************************************************************************)
Restored ==
    /\ stacks = pre.stacks
    /\ namespaces = pre.namespaces
    /\ roles = pre.roles
    /\ roleBindings = pre.roleBindings
    /\ Entries(mapRoles) = Entries(pre.mapRoles)

UnwoundCleanly == pc = "done" /\ result = "error" /\ compErrors = {}

C5_RestoredAlways == UnwoundCleanly => Restored

(***************************************************************************)
(* C5 amended: the same, provided the mapping document held, before the    *)
(* request, no entry whose rolearn is one the request derives for its      *)
(* admin or deployments user.                                              *)
(***************************************************************************)
NoEntryOfRequest(doc) ==
    \A s \in 1..2 : CountArn(doc, roleArn(namespaceName, Suffix(s))) = 0

C5_RestoredWithoutStaleEntry ==
    (UnwoundCleanly /\ NoEntryOfRequest(pre.mapRoles)) =>
        /\ Restored
        /\ mapRoles = pre.mapRoles

C5_Witness ==
    /\ UnwoundCleanly
    /\ NoEntryOfRequest(pre.mapRoles)
    /\ Len(pre.mapRoles) > 0
    /\ error = Err("replaceConfigMap", "deployments")
    /\ Len(compsRun) = 7

(***************************************************************************)
(* C6: the operation reports success only when the stack was read in       *)
(* CREATE_COMPLETE and every forward step has succeeded; once a forward    *)
(* step or the convergence check has failed it never reports success, and  *)
(* it ends with an error whatever the compensations did.                   *)
(***************************************************************************)
AllForwardEffects ==
    /\ StackName(namespaceName) \in stacks
    /\ namespaceName \in namespaces
    /\ \A s \in 1..2 :
         /\ kubernetesRoleName(namespaceName, Suffix(s)) \in roles
         /\ kubernetesRoleBindingName(namespaceName, Suffix(s)) \in roleBindings
         /\ CountArn(mapRoles, roleArn(namespaceName, Suffix(s))) > 0

C6_SuccessOnlyIfAllSucceeded ==
    /\ result = "success" =>
         /\ error = NoError
         /\ finalStatus = "CREATE_COMPLETE"
         /\ AllForwardEffects
         /\ revertStack = ForwardComps
         /\ compsRun = << >>
    /\ error # NoError => result # "success"
    /\ (error # NoError /\ pc = "done") => result = "error"

C6_Witness ==
    /\ pc = "done"
    /\ result = "success"
    /\ finalStatus = "CREATE_COMPLETE"
    /\ polls > 0

(***************************************************************************)
(* C7 as stated: no event id is logged twice in a poll session, whatever   *)
(* the batches hold.                                                       *)
(***************************************************************************)
C7_NoEventIdTwice ==
    \A i, j \in 1..Len(log) : log[i].EventId = log[j].EventId => i = j

(***************************************************************************)
(* C8 as stated: over the whole poll session the logged events are in      *)
(* timestamp order.                                                        *)
(***************************************************************************)
C8_LogInTimestampOrder ==
    \A i, j \in 1..Len(log) : i < j => log[i].Timestamp <= log[j].Timestamp

(***************************************************************************)
(* C9: when the status query that ends the loop returns a status other     *)
(* than CREATE_COMPLETE, the operation fails with a convergence failure,   *)
(* never reads the outputs, makes no cluster-side call, and its unwind is  *)
(* exactly the deletion of the stack.                                      *)
(***************************************************************************)
ClusterUntouched ==
    /\ namespaces = pre.namespaces
    /\ roles = pre.roles
    /\ roleBindings = pre.roleBindings
    /\ mapRoles = pre.mapRoles
    /\ rolesRead = << >>
    /\ pc \in {"describeStack", "unwinding", "done"}

C9_NonSuccessTerminalStatus ==
    exitStatus \notin {"none", "CREATE_COMPLETE"} =>
      /\ ~outputsRead
      /\ outputs = {}
      /\ ClusterUntouched
      /\ result # "success"
      /\ error \in {NoError, Err("unexpectedResult", ""),
                    Err("notExactlyOneStack", "")}
      /\ finalStatus # "none" =>
           /\ finalStatus # "CREATE_COMPLETE"
           /\ error = Err("unexpectedResult", "")
      /\ pc = "done" =>
           /\ result = "error"
           /\ error # NoError
           /\ compsRun = << Comp("deleteStack", "") >>

C9_Witness ==
    /\ pc = "done"
    /\ exitStatus = "ROLLBACK_COMPLETE"
    /\ finalStatus = "ROLLBACK_COMPLETE"
    /\ error = Err("unexpectedResult", "")
    /\ compsRun = << Comp("deleteStack", "") >>

(***************************************************************************)
(* C10: the stack is resolved if and only if describeStacks returns        *)
(* exactly one stack; with zero or several the request fails at once with  *)
(* its own error, makes no further describeStacks or describeStackEvents   *)
(* call, and unwinds.                                                      *)
(***************************************************************************)
C10_ResolutionState ==
    /\ error = Err("notExactlyOneStack", "") <=> lastCount # 1
    /\ lastCount # 1 =>
         /\ pc \in {"unwinding", "done"}
         /\ result # "success"
         /\ revertStack = << Comp("deleteStack", "") >>
         /\ pc = "done" => /\ result = "error"
                           /\ compsRun = << Comp("deleteStack", "") >>

C10_NoFurtherPolling ==
    [][lastCount # 1 => /\ nDescribe' = nDescribe
                        /\ nFetch' = nFetch
                        /\ lastCount' = lastCount]_vars

C10_ExactlyOneStack == [] C10_ResolutionState /\ C10_NoFurtherPolling

C10_Witness ==
    /\ pc = "done"
    /\ lastCount = 2
    /\ polls > 0
    /\ error = Err("notExactlyOneStack", "")
    /\ compsRun = << Comp("deleteStack", "") >>

(***************************************************************************)
(* C11: after the status query that ends the loop the stack is described   *)
(* exactly once more, and the outputs are built from that read and only    *)
(* when it reports CREATE_COMPLETE.                                        *)
(***************************************************************************)
ExpectedOutputs == { << "AdminKubernetesRole", "arn:admin" >>,
                     << "DeploymentsKubernetesRole", "arn:deploy" >> }

C11_OneMoreDescribe ==
    /\ exitStatus # "none" =>
         /\ pc = "describeStack" => nDescribe = polls + 1
         /\ pc # "describeStack" => nDescribe = polls + 2
    /\ outputsRead =>
         /\ exitStatus # "none"
         /\ finalStatus = "CREATE_COMPLETE"
         /\ nDescribe = polls + 2
         /\ outputs = ExpectedOutputs
    /\ ~outputsRead => outputs = {}

C11_Witness ==
    /\ pc = "createNamespace"
    /\ outputsRead
    /\ polls = MaxPolls
    /\ nDescribe = MaxPolls + 2

(***************************************************************************)
(* C12 as stated: an event whose ResourceProperties is absent or is not    *)
(* JSON never makes the surfacing fail: the event is logged like the       *)
(* others and no error reaches the request.                                *)
(***************************************************************************)
C12_RenderingNeverFails ==
    /\ error # Err("renderEvent", "")
    /\ \A i \in 1..Len(publishedEventIds) :
         \E j \in 1..Len(log) : log[j].EventId = publishedEventIds[i]

(***************************************************************************)
(* C13: with a namespace name that is empty or does not match the pattern  *)
(* the request fails with the validation error before any effect: no       *)
(* directory, no remote call, an empty revert stack.                       *)
(***************************************************************************)
InvalidNames == { << >>, << "1", "a" >>, << "a", "_" >> }

C13_InvalidNameNoEffect ==
    (namespaceName \in InvalidNames \/ ~IsValidName(namespaceName)) =>
      /\ pc \in {"start", "unwinding", "done"}
      /\ pc # "start" => error = Err("invalidName", "")
      /\ pc = "start" => error = NoError
      /\ revertStack = << >>
      /\ compsRun = << >>
      /\ localDirs = {}
      /\ Remote = pre
      /\ nDescribe = 0
      /\ nFetch = 0
      /\ result # "success"
      /\ pc = "done" => result = "error"

C13_Witness ==
    /\ pc = "done"
    /\ namespaceName = << "a", "_" >>
    /\ error = Err("invalidName", "")
    /\ result = "error"

(***************************************************************************)
(* C15 as stated: a successful run appends exactly two entries to the      *)
(* mapping document, keyed by the values of the stack outputs              *)
(* AdminKubernetesRole and DeploymentsKubernetesRole, the roleArn          *)
(* parameters of the two sub-routine runs.                                 *)
(***************************************************************************)
C15_EntriesKeyedByOutputs ==
    result = "success" =>
      /\ Len(mapRoles) = Len(pre.mapRoles) + 2
      /\ SubSeq(mapRoles, 1, Len(pre.mapRoles)) = pre.mapRoles
      /\ \A s \in 1..2 :
           mapRoles[Len(pre.mapRoles) + s].rolearn
             = Literal(roleArnParameter(outputs, s))

(***************************************************************************)
(* C17: a run of the user sub-routine creates the role, registers its      *)
(* deletion, creates the role binding (on that role and the derived        *)
(* group), registers its deletion, reads and replaces the mapping          *)
(* document and registers the removal, in this order and up to the first   *)
(* failure; a delete compensation removes the resource its create call     *)
(* made.                                                                   *)
(***************************************************************************)
SubComps(s) == SelectSeq(revertStack, LAMBDA c : c.sfx = Suffix(s))

SubOrder(s) == << Comp("deleteRole", Suffix(s)), Comp("deleteRoleBinding", Suffix(s)),
                  Comp("removeMapping", Suffix(s)) >>

StepsDone(step) ==
    CASE step = "createRole" -> 0
      [] step = "createRoleBinding" -> 1
      [] step \in {"readConfigMap", "replaceConfigMap"} -> 2

SubSteps == {"createRole", "createRoleBinding", "readConfigMap", "replaceConfigMap"}

C17_SubRoutineState ==
    /\ \A s \in 1..2 : SubComps(s) = SubSeq(SubOrder(s), 1, Len(SubComps(s)))
    /\ (pc \in SubSteps /\ sub \in 1..2) =>
         /\ Len(SubComps(sub)) = StepsDone(pc)
         /\ pc \in {"readConfigMap", "replaceConfigMap"} =>
              /\ RoleBindingBody(namespaceName, Suffix(sub)).name \in roleBindings
              /\ RoleBindingBody(namespaceName, Suffix(sub)).roleRef \in roles
              /\ RoleBindingBody(namespaceName, Suffix(sub)).subject
                   = MapEntry(namespaceName, Suffix(sub)).groups[1]
         /\ pc = "replaceConfigMap" =>
              rolesRead = Append(mapRoles, MapEntry(namespaceName, Suffix(sub)))
    /\ (error.step \in SubSteps /\ sub \in 1..2) =>
         /\ error.sfx = Suffix(sub)
         /\ Len(SubComps(sub)) = StepsDone(error.step)
         /\ compsRun = << >> =>
              CountArn(mapRoles, roleArn(namespaceName, Suffix(sub)))
                = CountArn(pre.mapRoles, roleArn(namespaceName, Suffix(sub)))

C17_DeletesWhatWasCreated ==
    [][(pc = "unwinding" /\ Len(compsRun') = Len(compsRun) + 1
          /\ compErrors' = compErrors) =>
         LET c == revertStack[idx]
         IN  /\ c.op = "deleteRole" =>
                  /\ kubernetesRoleName(namespaceName, c.sfx) \in roles
                  /\ roles' = roles \ {kubernetesRoleName(namespaceName, c.sfx)}
                  /\ roleBindings' = roleBindings
             /\ c.op = "deleteRoleBinding" =>
                  /\ RoleBindingBody(namespaceName, c.sfx).name \in roleBindings
                  /\ roleBindings' = roleBindings
                                       \ {RoleBindingBody(namespaceName, c.sfx).name}
                  /\ roles' = roles]_vars

C17_SubRoutineOrder == [] C17_SubRoutineState /\ C17_DeletesWhatWasCreated

C17_Witness ==
    /\ pc = "unwinding"
    /\ error = Err("replaceConfigMap", "deployments")
    /\ compsRun = << Comp("deleteRoleBinding", "deployments"),
                     Comp("deleteRole", "deployments") >>
    /\ compErrors = {}
    /\ kubernetesRoleName(namespaceName, "deployments") \notin roles
    /\ kubernetesRoleName(namespaceName, "admin") \in roles

(***************************************************************************)
(* C18: the forward steps of a request follow one another: the namespace   *)
(* is created only after the stack was read in CREATE_COMPLETE, the admin  *)
(* sub-routine starts only after the namespace was created, the            *)
(* deployments sub-routine only after the admin one has completed, and     *)
(* after a failure no forward step is made.                                *)
(***************************************************************************)
ForwardPcs == {"start", "createStack", "getStackStatus", "describeStackEvents",
               "describeStack", "createNamespace"} \cup SubSteps

C18_SequentialState ==
    /\ (pc = "createNamespace" \/ Registered(Comp("deleteNamespace", ""))) =>
         /\ finalStatus = "CREATE_COMPLETE"
         /\ outputsRead
         /\ Registered(Comp("deleteStack", ""))
    /\ (sub \in 1..2 \/ Len(SubComps(1)) > 0) =>
         Registered(Comp("deleteNamespace", ""))
    /\ (sub = 2 \/ Len(SubComps(2)) > 0) => SubComps(1) = SubOrder(1)
    /\ sub = 1 => SubComps(2) = << >>
    /\ pc \in SubSteps <=> (sub \in 1..2 /\ error = NoError)
    /\ error # NoError <=> pc = "unwinding" \/ (pc = "done" /\ result = "error")
    /\ result = "success" => SubComps(2) = SubOrder(2)

C18_NothingAfterFailure ==
    [][error # NoError =>
         /\ error' = error
         /\ pc' \notin ForwardPcs
         /\ revertStack' = revertStack
         /\ stacks' \subseteq stacks
         /\ namespaces' \subseteq namespaces
         /\ roles' \subseteq roles
         /\ roleBindings' \subseteq roleBindings
         /\ Len(mapRoles') <= Len(mapRoles)
         /\ localDirs' = localDirs
         /\ nDescribe' = nDescribe
         /\ nFetch' = nFetch]_vars

C18_StrictlySequential == [] C18_SequentialState /\ C18_NothingAfterFailure

C18_Witness ==
    /\ pc = "createRoleBinding"
    /\ sub = 2
    /\ SubComps(1) = SubOrder(1)
    /\ SubComps(2) = << Comp("deleteRole", "deployments") >>
    /\ finalStatus = "CREATE_COMPLETE"

(***************************************************************************)
(* C19 as stated: the poll loop is left only by a status query that        *)
(* returns a status other than CREATE_IN_PROGRESS or by a stack that       *)
(* cannot be resolved: once the stack is created and the request is past   *)
(* the loop, one of the two has happened.                                  *)
(***************************************************************************)
LoopPcs == {"getStackStatus", "describeStackEvents"}

LoopLeft == /\ Registered(Comp("deleteStack", ""))
            /\ pc \notin LoopPcs

C19_ExitOnlyByStatus ==
    LoopLeft =>
      \/ exitStatus \notin {"none", "CREATE_IN_PROGRESS"}
      \/ /\ exitStatus = "none"
         /\ error = Err("notExactlyOneStack", "")

(***************************************************************************)
(* C20 as stated: once the loop has ended, every event that was surfaced   *)
(* was in the stack's event list at the last status query that returned    *)
(* CREATE_IN_PROGRESS.                                                     *)
(***************************************************************************)
Surfaced == { log[j].EventId : j \in 1..Len(log) }

Published == { publishedEventIds[i] : i \in 1..Len(publishedEventIds) }

C20_NothingAfterLastQuery ==
    exitStatus # "none" => Surfaced \subseteq seenAtQuery

(***************************************************************************)
(* C20: events are fetched and surfaced only in the iterations whose       *)
(* status query returned CREATE_IN_PROGRESS, one fetch per such query; an  *)
(* event that appears after the last describeStackEvents call is never     *)
(* surfaced, and when the first status query does not return               *)
(* CREATE_IN_PROGRESS no event is fetched and none is surfaced.            *)
(***************************************************************************)
C20_FetchState ==
    /\ nFetch <= polls
    /\ polls <= nFetch + 1
    /\ pc = "describeStackEvents" => nFetch + 1 = polls
    /\ pc = "getStackStatus" => nFetch = polls
    /\ exitStatus # "none" => nFetch = polls
    /\ Surfaced \subseteq seenAtFetch
    /\ Published \subseteq seenAtFetch
    /\ seenAtQuery \subseteq seenAtFetch \/ pc = "describeStackEvents"
    /\ polls = 0 => /\ nFetch = 0
                    /\ log = << >>
                    /\ publishedEventIds = << >>
                    /\ seenAtFetch = {}

C20_FetchOnlyInLoopBody ==
    [][(nFetch' # nFetch \/ log' # log \/ publishedEventIds' # publishedEventIds
          \/ seenAtFetch' # seenAtFetch) =>
         /\ pc = "describeStackEvents"
         /\ nFetch' = nFetch + 1
         /\ seenAtFetch' = appeared]_vars

C20_SurfacedOnlyInProgress == [] C20_FetchState /\ C20_FetchOnlyInLoopBody

C20_Witness ==
    /\ exitStatus # "none"
    /\ polls = 1
    /\ nFetch = 1
    /\ Surfaced = {"e1"}
    /\ seenAtQuery = {}
    /\ seenAtFetch = {"e1"}
    /\ appeared = {"e1", "e2"}

(***************************************************************************)
(* C14: the compensation that removes the mapping reads the document when  *)
(* it runs and writes it back without the entries whose rolearn is the     *)
(* request's; every other entry of the document read stays, in the same    *)
(* relative order, wherever the matching entry is.                         *)
(***************************************************************************)
MatchesUpTo(doc, arn, i) ==
    Cardinality({ j \in 1..i : doc[j].rolearn = arn })

C14_RemovalKeepsOthers ==
    [][(pc = "unwinding" /\ idx > 0 /\ Len(compsRun') = Len(compsRun) + 1
          /\ compErrors' = compErrors) =>
         (revertStack[idx].op = "removeMapping" =>
            LET arn == roleArn(namespaceName, revertStack[idx].sfx)
            IN  /\ compRead' = mapRoles
                /\ CountArn(mapRoles', arn) = 0
                /\ Len(mapRoles') = Len(mapRoles) - CountArn(mapRoles, arn)
                /\ \A i \in 1..Len(mapRoles) :
                     mapRoles[i].rolearn # arn =>
                       mapRoles'[i - MatchesUpTo(mapRoles, arn, i)] = mapRoles[i])]_vars

C14_Witness ==
    /\ pc = "unwinding"
    /\ compsRun # << >>
    /\ compsRun[Len(compsRun)] = Comp("removeMapping", "admin")
    /\ compErrors = {}
    /\ compRead = << OtherEntry, MapEntry(namespaceName, "admin"), RacerEntry >>
    /\ mapRoles = << OtherEntry, RacerEntry >>

(***************************************************************************)
(* C16: the replace call installs the array the writer loaded, whatever    *)
(* the document has become since the read; two requests whose reads and    *)
(* writes interleave can both return successfully with the entry of one    *)
(* of them missing.                                                        *)
(***************************************************************************)
C16_UnguardedWrite ==
    [][/\ (otherPc = "replaceConfigMap" /\ otherPc' = "done") =>
            mapRoles' = otherRoles
       /\ (pc = "replaceConfigMap" /\ pc' \in {"createRole", "done"}) =>
            mapRoles' = rolesRead
       /\ (otherPc = "readConfigMap" /\ otherPc' = "replaceConfigMap") =>
            /\ otherRoles' = Append(mapRoles, RacerEntry)
            /\ mapRoles' = mapRoles]_vars

C16_Witness ==
    /\ result = "success"
    /\ otherPc = "done"
    /\ RacerEntry \notin Entries(mapRoles)
    /\ MapEntry(namespaceName, "admin") \in Entries(mapRoles)
    /\ MapEntry(namespaceName, "deployments") \in Entries(mapRoles)

====
